---- MODULE Spec2Model ----
(***************************************************************************)
(* A model of the safe-manually-drop crate: SafeManuallyDrop<FieldTy,      *)
(* ContainingType>, its constructor, its Deref/DerefMut impls, its Drop    *)
(* impl (which hands the owned field to DropManually::drop_manually) and   *)
(* into_inner_defusing_impl_Drop.  The state is a bounded set of container *)
(* instances owned by a caller, together with what the hooks and the       *)
(* default drop glue of the held values have done so far.                  *)
(***************************************************************************)
EXTENDS Integers, Sequences, FiniteSets

\* Number of container instances the caller may construct.
MaxInst == 2
\* The values of FieldTy are 0 .. MaxVal.
MaxVal == 1

Inst == 1 .. MaxInst
Values == 0 .. MaxVal
\* A word that is no value of FieldTy: nothing was read or returned.
NoValue == MaxVal + 1

\* The impls of DropManually that the crate's documentation defines.
Strategies == {"Example", "CommitOnDropStrategy", "RollBackOnDropStrategy"}
NoStrategy == "-"

VARIABLES
    binding,     \* where the caller's container binding is in its life
    strategy,    \* the ContainingType parameter of the instantiation
    field,       \* the bits of the `field: ManuallyDrop<FieldTy>` slot
    expect,      \* history: the value of construction or of the latest write
    written,     \* history: whether an exclusive write went through the container
    hooks,       \* per instance, the drop_manually calls made: <<[impl, arg]>>
    hookFate,    \* what the hook did with the owned value it received
    effect,      \* what consuming the value did: a commit or a roll back
    valueDrops,  \* how often the held value's own default drop glue has run
    extracts,    \* how often into_inner_defusing_impl_Drop returned for the instance
    inner,       \* the extracted FieldTy the caller currently owns
    read,        \* what the deref that has just returned gave the caller
    hookUnwound, \* whether the instance's drop_manually call ended by a panic
    unwound,     \* whether the instance's drop glue ended by unwinding
    calls,       \* per instance, the arguments its callable was invoked with
    holder,      \* the instance whose held callable captured this container, or 0
    aborted,     \* whether a panic during an unwinding aborted the process
    sibling,     \* the Weak<()> field beside a Transaction's container
    siblingDrops, \* how often that sibling field's drop glue has run
    weak,        \* the weak counter of the Arc each Transaction downgraded
    unleaks,     \* history: how often the test undid the leak of a forget
    beside,      \* history: the sibling as the container's terminal operation left it
    handed,      \* history: the value the extraction in commit() handed over
    closedBy,    \* history: the ways the caller let go of the Transaction
    optSlot,     \* reference design: the Option<FieldTy> slot of each instance
    optHooks,    \* reference design: the arguments its hook was called with
    optInner,    \* reference design: the extracted value the caller owns
    optRead,     \* reference design: what the read that has just returned gave
    optFailed,   \* reference design: whether an unwrap() found None
    rejected,    \* the ContainingType arguments the compiler has refused
    armed        \* history: the state each ScopeGuard was armed with

coreVars == <<binding, strategy, field, expect, written, hooks, hookFate,
              effect, valueDrops, extracts, inner, read, hookUnwound, unwound,
              calls>>

\* The state of the structures built around a container in tests/.
nestVars == <<holder, aborted>>
txnVars == <<sibling, siblingDrops, weak, unleaks, beside, handed, closedBy>>

\* The state of the Option-based design the documentation compares with.
refVars == <<optSlot, optHooks, optInner, optRead, optFailed>>

\* What the type checker has said of the instantiations it was given.
typeVars == <<rejected>>

\* What tests/defer.rs gave to ScopeGuardFields::arm.
guardVars == <<armed>>

vars == <<coreVars, nestVars, txnVars, refVars, typeVars, guardVars>>

Lives == {"unborn", "owned", "dropped", "defused", "forgotten", "moved"}
Fates == {"none", "drop", "forget", "move"}
Effects == {"None", "Committed", "RolledBack", "Called"}

NoRead == [inst |-> 0, val |-> NoValue]
Read(i, v) == [inst |-> i, val |-> v]

\* Variants of Owned under which a container stays usable after its terminal
\* operation (a receiver that does not consume it), or after mem::forget.
OwnedOrTerminated(i) == binding[i] \in {"owned", "dropped", "defused"}
OwnedOrForgotten(i) == binding[i] \in {"owned", "forgotten"}

\* The caller owns the container: the precondition of every method, whose
\* receivers are `self`, `&self` or `&mut self`.
Owned(i) == binding[i] = "owned"

Alive(i) == binding[i] = "owned"
Terminated(i) == binding[i] \in {"dropped", "defused"}
Suppressed(i) == binding[i] = "forgotten"

----------------------------------------------------------------------------
(* Representation.  The struct is #[repr(transparent)]: a zero-sized       *)
(* PhantomData marker followed by the ManuallyDrop<FieldTy> field, itself  *)
(* a transparent wrapper, so a container's bytes are the bytes of its      *)
(* FieldTy.                                                                *)

\* A variant of PhantomBytes: a marker with a run-time word (a presence flag).
PhantomFlag == <<0>>

\* PhantomData<fn() -> ContainingType> occupies no bytes.
PhantomBytes == <<>>

\* ManuallyDrop::new: the slot holds the value's bytes, with no drop glue.
MDNew(v) == <<v>>

\* The bytes of a whole container whose field slot is `slot`.
ContainerBytes(slot) == PhantomBytes \o slot

\* Reading a FieldTy out of bytes: its one word is the first one.
ReadFieldTy(bytes) == bytes[1]

\* A variant of MDTake that leaves the value where it is and hands out a
\* zeroed FieldTy.
MDTakeZeroed(slot) == 0

\* ManuallyDrop::take(&mut self.field): reads the value out of the slot.
MDTake(slot) == ReadFieldTy(slot)

\* ManuallyDrop::into_inner / Deref of ManuallyDrop: the wrapped value.
MDIntoInner(slot) == ReadFieldTy(slot)

\* ConstUncheckedTransmuter { src: MD::new(self) }.dst: the container's bytes
\* read back as a ManuallyDrop<FieldTy>.
Transmute(slot) == ContainerBytes(slot)

\* A variant of FieldsDropGlue for `field: FieldTy`, not wrapped in
\* ManuallyDrop: the glue drops the value in the slot.
BareFieldDropGlue(slot) == Len(slot)

\* Drop glue of the struct's fields, run after Drop::drop: PhantomData has
\* none and ManuallyDrop<FieldTy> inhibits that of FieldTy.  The number of
\* times the held value's default drop glue is run by it.
FieldsDropGlue(slot) == 0

----------------------------------------------------------------------------
(* The impls of DropManually.  Each receives the owned value; what it can  *)
(* do with it is the set of its outcomes: the value's fate ("drop": it     *)
(* falls out of scope in the hook, "forget": mem::forget, "move": it is    *)
(* passed to an ownership-consuming operation), the effect of that         *)
(* operation, and whether the hook returned or panicked.                   *)

Outcome(f, e) == [fate |-> f, effect |-> e, unwound |-> FALSE]

\* An outcome in which the callable the hook invoked panicked.
Panicked(f, e) == [fate |-> f, effect |-> e, unwound |-> TRUE]

\* impl DropManually<String> for Example: drop(s) or forget(s), at random.
ExampleHook == {Outcome("drop", "None"), Outcome("forget", "None")}

\* impl DropManually<Transaction> for CommitOnDropStrategy: txn.commit().
CommitOnDropHook == {Outcome("move", "Committed")}

\* impl DropManually<Transaction> for RollBackOnDropStrategy: txn.roll_back().
RollBackOnDropHook == {Outcome("move", "RolledBack")}

\* impl DropManually<F> for Defer<F>: f(), a callable of the caller's, which
\* returns or panics.
DeferHook == {Outcome("move", "Called"), Panicked("move", "Called")}

\* impl DropManually<ScopeGuardFields<State, F>> for ScopeGuard<State, F>:
\* on_drop(state), a callback of the caller's, which returns or panics.
ScopeGuardHook == {Outcome("move", "Called"), Panicked("move", "Called")}

\* impl DropManually<RawTransaction> for Transaction: raw_txn.roll_back().
TransactionHook == {Outcome("move", "RolledBack")}

\* impl DropManually<FieldTy> for MissingSecondTypeParam: unreachable!(), which
\* panics while it owns the value.
MissingSecondTypeParamHook == {Panicked("drop", "None")}

\* ContainingType::drop_manually(owned): static dispatch on the type parameter.
DropManually(S) ==
    CASE S = "Example" -> ExampleHook
      [] S = "CommitOnDropStrategy" -> CommitOnDropHook
      [] S = "RollBackOnDropStrategy" -> RollBackOnDropHook
      [] S = "Defer" -> DeferHook
      [] S = "ScopeGuard" -> ScopeGuardHook
      [] S = "Transaction" -> TransactionHook
      [] S = "MissingSecondTypeParam" -> MissingSecondTypeParamHook

\* Variant: the callback is invoked without the state.
CallArgNone(S, owned) == NoValue

\* The argument the hook's callable is invoked with: f() takes none, on_drop
\* takes the state of the fields.
CallArg(S, owned) == IF S = "ScopeGuard" THEN owned ELSE NoValue

\* The record of one drop_manually call: the impl that ran and its argument.
HookCall(S, arg) == [impl |-> S, arg |-> arg]

----------------------------------------------------------------------------
Init ==
    /\ binding = [i \in Inst |-> "unborn"]
    /\ strategy = [i \in Inst |-> NoStrategy]
    /\ field = [i \in Inst |-> <<>>]
    /\ expect = [i \in Inst |-> NoValue]
    /\ written = [i \in Inst |-> FALSE]
    /\ hooks = [i \in Inst |-> <<>>]
    /\ hookFate = [i \in Inst |-> "none"]
    /\ effect = [i \in Inst |-> "None"]
    /\ valueDrops = [i \in Inst |-> 0]
    /\ extracts = [i \in Inst |-> 0]
    /\ inner = [i \in Inst |-> NoValue]
    /\ read = NoRead
    /\ hookUnwound = [i \in Inst |-> FALSE]
    /\ unwound = [i \in Inst |-> FALSE]
    /\ calls = [i \in Inst |-> <<>>]
    /\ holder = [i \in Inst |-> 0]
    /\ aborted = FALSE
    /\ sibling = [i \in Inst |-> "none"]
    /\ siblingDrops = [i \in Inst |-> 0]
    /\ weak = [i \in Inst |-> 0]
    /\ unleaks = [i \in Inst |-> 0]
    /\ beside = [i \in Inst |-> "none"]
    /\ handed = [i \in Inst |-> NoValue]
    /\ closedBy = [i \in Inst |-> <<>>]
    /\ optSlot = [i \in Inst |-> <<>>]
    /\ optHooks = [i \in Inst |-> <<>>]
    /\ optInner = [i \in Inst |-> NoValue]
    /\ optRead = NoValue
    /\ optFailed = FALSE
    /\ rejected = {}
    /\ armed = [i \in Inst |-> NoValue]

\* SafeManuallyDrop::new(value), for the instantiation with ContainingType = S.
New(i, v, S) ==
    /\ binding[i] = "unborn"
    /\ binding' = [binding EXCEPT ![i] = "owned"]
    /\ strategy' = [strategy EXCEPT ![i] = S]
    /\ field' = [field EXCEPT ![i] = MDNew(v)]
    /\ expect' = [expect EXCEPT ![i] = v]
    /\ read' = NoRead
    /\ UNCHANGED <<written, hooks, hookFate, effect, valueDrops,
                   extracts, inner, hookUnwound, unwound, calls>>

\* Deref::deref(&self) -> &FieldTy, and the caller's read through it.
DerefRead(slot) == MDIntoInner(slot)

Deref(i) ==
    /\ Owned(i)
    /\ read' = Read(i, DerefRead(field[i]))
    /\ UNCHANGED <<binding, strategy, field, expect, written, hooks, hookFate,
                   effect, valueDrops, extracts, inner, hookUnwound, unwound,
                   calls>>

\* A variant of DerefMutWrite: the write goes to a copy, the slot keeps its value.
DerefMutWriteLost(slot, v) == slot

\* DerefMut::deref_mut(&mut self) -> &mut FieldTy, and the caller's write of v
\* through it: the slot after the write.
DerefMutWrite(slot, v) == [slot EXCEPT ![1] = v]

\* A variant of DerefMut that assigns a new container over the old one, whose
\* drop glue then runs the hook on the old value.
DerefMutReplacing(i, v) ==
    /\ Owned(i)
    /\ field' = [field EXCEPT ![i] = MDNew(v)]
    /\ expect' = [expect EXCEPT ![i] = v]
    /\ written' = [written EXCEPT ![i] = TRUE]
    /\ hooks' = [hooks EXCEPT ![i] =
                    Append(@, HookCall(strategy[i], MDTake(field[i])))]
    /\ read' = NoRead
    /\ UNCHANGED <<binding, strategy, hookFate, effect, valueDrops, extracts,
                   inner, hookUnwound, unwound, calls>>

DerefMut(i, v) ==
    /\ Owned(i)
    /\ field' = [field EXCEPT ![i] = DerefMutWrite(field[i], v)]
    /\ expect' = [expect EXCEPT ![i] = v]
    /\ written' = [written EXCEPT ![i] = TRUE]
    /\ read' = NoRead
    /\ UNCHANGED <<binding, strategy, hooks, hookFate, effect, valueDrops,
                   extracts, inner, hookUnwound, unwound, calls>>

\* A variant of DropImpl: one fixed impl, whatever the type parameter.
DropImplFixed(S) == "RollBackOnDropStrategy"

\* The impl of DropManually that impl Drop for SafeManuallyDrop<FieldTy,
\* ContainingType> calls for a container whose type parameter is S.
DropImpl(S) == S

\* A variant of DropOutcome: the drop catches the hook's panic.
DropOutcomeCaught(hookPanicked) == FALSE

\* Drop::drop ends with the call of the hook, outside of any catch: it unwinds
\* exactly when the hook does.
DropOutcome(hookPanicked) == hookPanicked

\* The container's drop glue, run when its owner lets it go: Drop::drop takes
\* the field and calls the hook with it; then the fields' own glue runs.
Drop(i) ==
    /\ Owned(i)
    /\ LET owned == MDTake(field[i])
           S == DropImpl(strategy[i])
       IN \E o \in DropManually(S) :
            /\ hooks' = [hooks EXCEPT ![i] = Append(@, HookCall(S, owned))]
            /\ hookFate' = [hookFate EXCEPT ![i] = o.fate]
            /\ effect' = [effect EXCEPT ![i] = o.effect]
            /\ valueDrops' = [valueDrops EXCEPT ![i] =
                    @ + (IF o.fate = "drop" THEN 1 ELSE 0) + FieldsDropGlue(field[i])]
            /\ calls' = [calls EXCEPT ![i] =
                    IF o.effect = "Called" THEN Append(@, CallArg(S, owned)) ELSE @]
            /\ hookUnwound' = [hookUnwound EXCEPT ![i] = o.unwound]
            /\ unwound' = [unwound EXCEPT ![i] = DropOutcome(o.unwound)]
    /\ binding' = [binding EXCEPT ![i] = "dropped"]
    /\ read' = NoRead
    /\ UNCHANGED <<strategy, field, expect, written, extracts, inner>>

\* A variant of MDNewSelf: `self` is not wrapped, so the caller's container
\* keeps its drop glue after the extraction.
SelfNotWrapped == "owned"

\* MD::new(self) in into_inner_defusing_impl_Drop: the container is wrapped in a
\* ManuallyDrop, so its Drop impl never runs for it.
MDNewSelf == "defused"

\* SafeManuallyDrop::into_inner_defusing_impl_Drop(self) -> FieldTy.
IntoInner(i) ==
    /\ Owned(i)
    /\ LET v == MDIntoInner(Transmute(field[i]))
       IN inner' = [inner EXCEPT ![i] = v]
    /\ read' = NoRead
    /\ binding' = [binding EXCEPT ![i] = MDNewSelf]
    /\ extracts' = [extracts EXCEPT ![i] = @ + 1]
    /\ UNCHANGED <<strategy, field, expect, written, hooks, hookFate, effect,
                   valueDrops, hookUnwound, unwound, calls>>

\* The extracted FieldTy goes out of the caller's scope: its default drop glue.
DropInner(i) ==
    /\ inner[i] # NoValue
    /\ inner' = [inner EXCEPT ![i] = NoValue]
    /\ valueDrops' = [valueDrops EXCEPT ![i] = @ + 1]
    /\ read' = NoRead
    /\ UNCHANGED <<binding, strategy, field, expect, written, hooks, hookFate,
                   effect, extracts, hookUnwound, unwound, calls>>

\* ::core::mem::forget(container): the caller suppresses its destruction.
Forget(i) ==
    /\ Owned(i)
    /\ binding' = [binding EXCEPT ![i] = "forgotten"]
    /\ read' = NoRead
    /\ UNCHANGED <<strategy, field, expect, written, hooks, hookFate, effect,
                   valueDrops, extracts, inner, hookUnwound, unwound, calls>>

\* The operations on containers that stand alone, in no structure of tests/.
Alone == UNCHANGED <<nestVars, txnVars, refVars, typeVars, guardVars>>

Next ==
    \/ \E i \in Inst, v \in Values, S \in Strategies : New(i, v, S) /\ Alone
    \/ \E i \in Inst : Deref(i) /\ Alone
    \/ \E i \in Inst, v \in Values : DerefMut(i, v) /\ Alone
    \/ \E i \in Inst : Drop(i) /\ Alone
    \/ \E i \in Inst : IntoInner(i) /\ Alone
    \/ \E i \in Inst : DropInner(i) /\ Alone
    \/ \E i \in Inst : Forget(i) /\ Alone

Spec == Init /\ [][Next]_vars

\* Scope exit is deterministic: an owned container's drop glue is not postponed
\* forever, and neither is that of an extracted value.
FairSpec ==
    Spec /\ \A i \in Inst :
                WF_vars(Drop(i) /\ Alone) /\ WF_vars(DropInner(i) /\ Alone)

TypeOK ==
    /\ binding \in [Inst -> Lives]
    /\ strategy \in [Inst -> Strategies \cup {NoStrategy}]
    /\ \A i \in Inst : field[i] \in {<<>>} \cup {<<v>> : v \in Values}
    /\ expect \in [Inst -> Values \cup {NoValue}]
    /\ written \in [Inst -> BOOLEAN]
    /\ hookFate \in [Inst -> Fates]
    /\ effect \in [Inst -> Effects]
    /\ valueDrops \in [Inst -> 0 .. 2]
    /\ extracts \in [Inst -> 0 .. 1]
    /\ inner \in [Inst -> Values \cup {NoValue}]

----------------------------------------------------------------------------
(* tests/defer.rs: Defer<F>, a guard around a callable F : FnOnce(), and a *)
(* guard whose callable captured another guard by move.                    *)

\* The containers that the callable held by j captured.
Captured(j) == {i \in Inst : binding[i] = "moved" /\ holder[i] = j}

\* What the drop glue of container i (Drop::drop, then the fields' glue)
\* does to each part of the state when its hook has outcome o.
GlueBinding(b, i) == [b EXCEPT ![i] = "dropped"]
GlueHooks(h, i) ==
    [h EXCEPT ![i] = Append(@, HookCall(DropImpl(strategy[i]), MDTake(field[i])))]
GlueFate(f, i, o) == [f EXCEPT ![i] = o.fate]
GlueEffect(e, i, o) == [e EXCEPT ![i] = o.effect]
GlueValueDrops(d, i, o) ==
    [d EXCEPT ![i] = @ + (IF o.fate = "drop" THEN 1 ELSE 0)
                       + FieldsDropGlue(field[i])]
GlueCalls(c, i, o) ==
    [c EXCEPT ![i] =
        IF o.effect = "Called"
        THEN Append(@, CallArg(DropImpl(strategy[i]), MDTake(field[i])))
        ELSE @]
GlueHookUnwound(u, i, o) == [u EXCEPT ![i] = o.unwound]
GlueUnwound(u, i, o) == [u EXCEPT ![i] = DropOutcome(o.unwound)]

\* The outcome of the hook of a guard whose callable is { incr(); drop(a); }
\* when the callable's own outcome is o and the hook of a has outcome oi: a
\* panic of a's callable inside drop(a) leaves the holder's callable too.
HolderOutcome(o, oi) == [o EXCEPT !.unwound = o.unwound \/ oi.unwound]

\* Whether the process aborts: the holder's callable panicked before it
\* dropped what it captured, the unwinding dropped the captured guard, and
\* that guard's callable panicked during the unwinding.
PanicInUnwinding(o, oi, early) == early /\ o.unwound /\ oi.unwound

\* Defer::new(f), Defer(SafeManuallyDrop::new(f)).
DeferNew(i, v) ==
    /\ ~aborted
    /\ New(i, v, "Defer")
    /\ UNCHANGED <<nestVars, txnVars, refVars, typeVars, guardVars>>

\* Defer(SafeManuallyDrop::new(|| { incr(); drop(a); })): a guard j whose
\* callable v captured the guard i.
DeferNewCapturing(j, i, v) ==
    /\ ~aborted
    /\ binding[j] = "unborn"
    /\ i # j /\ Owned(i) /\ Captured(i) = {}
    /\ binding' = [binding EXCEPT ![j] = "owned", ![i] = "moved"]
    /\ holder' = [holder EXCEPT ![i] = j]
    /\ UNCHANGED aborted
    /\ strategy' = [strategy EXCEPT ![j] = "Defer"]
    /\ field' = [field EXCEPT ![j] = MDNew(v)]
    /\ expect' = [expect EXCEPT ![j] = v]
    /\ read' = NoRead
    /\ UNCHANGED <<written, hooks, hookFate, effect, valueDrops, extracts,
                   inner, hookUnwound, unwound, calls, txnVars, refVars,
                   typeVars, guardVars>>

\* A guard whose callable captured nothing leaves scope.
DeferDrop(j) ==
    /\ ~aborted
    /\ Captured(j) = {}
    /\ Drop(j)
    /\ UNCHANGED <<nestVars, txnVars, refVars, typeVars, guardVars>>

\* A guard whose callable captured guard i leaves scope: the hook calls the
\* callable, which drops i (also when it panics, by unwinding).  `early`:
\* the callable's own panic, if any, comes before its drop(a).
NestedDrop(j, i) ==
    /\ ~aborted
    /\ Owned(j) /\ i \in Captured(j)
    /\ \E o \in DropManually(DropImpl(strategy[j])),
          oi \in DropManually(DropImpl(strategy[i])),
          early \in BOOLEAN :
        LET oj == HolderOutcome(o, oi)
        IN /\ hooks' = GlueHooks(GlueHooks(hooks, j), i)
           /\ hookFate' = GlueFate(GlueFate(hookFate, j, oj), i, oi)
           /\ effect' = GlueEffect(GlueEffect(effect, j, oj), i, oi)
           /\ valueDrops' =
                  GlueValueDrops(GlueValueDrops(valueDrops, j, oj), i, oi)
           /\ calls' = GlueCalls(GlueCalls(calls, j, oj), i, oi)
           /\ hookUnwound' =
                  GlueHookUnwound(GlueHookUnwound(hookUnwound, j, oj), i, oi)
           /\ unwound' = GlueUnwound(GlueUnwound(unwound, j, oj), i, oi)
           /\ aborted' = PanicInUnwinding(o, oi, early)
    /\ binding' = GlueBinding(GlueBinding(binding, j), i)
    /\ read' = NoRead
    /\ UNCHANGED <<strategy, field, expect, written, extracts, inner, holder,
                   txnVars, refVars, typeVars, guardVars>>

\* b.0.into_inner_defusing_impl_Drop(): what the callable captured stays in it.
DeferIntoInner(j) ==
    /\ ~aborted
    /\ IntoInner(j)
    /\ UNCHANGED <<nestVars, txnVars, refVars, typeVars, guardVars>>

\* The caller invokes the callable it extracted, which captured nothing.
CallInner(j) ==
    /\ ~aborted
    /\ inner[j] # NoValue /\ Captured(j) = {}
    /\ inner' = [inner EXCEPT ![j] = NoValue]
    /\ calls' = [calls EXCEPT ![j] = Append(@, NoValue)]
    /\ read' = NoRead
    /\ UNCHANGED <<binding, strategy, field, expect, written, hooks, hookFate,
                   effect, valueDrops, extracts, hookUnwound, unwound, nestVars,
                   txnVars, refVars, typeVars, guardVars>>

\* The caller invokes the callable it extracted, which drops the guard i it
\* captured.
NestedCallInner(j, i) ==
    /\ ~aborted
    /\ inner[j] # NoValue /\ i \in Captured(j)
    /\ inner' = [inner EXCEPT ![j] = NoValue]
    /\ \E oi \in DropManually(DropImpl(strategy[i])) :
        /\ hooks' = GlueHooks(hooks, i)
        /\ hookFate' = GlueFate(hookFate, i, oi)
        /\ effect' = GlueEffect(effect, i, oi)
        /\ valueDrops' = GlueValueDrops(valueDrops, i, oi)
        /\ calls' = GlueCalls([calls EXCEPT ![j] = Append(@, NoValue)], i, oi)
        /\ hookUnwound' = GlueHookUnwound(hookUnwound, i, oi)
        /\ unwound' = GlueUnwound(unwound, i, oi)
    /\ binding' = GlueBinding(binding, i)
    /\ read' = NoRead
    /\ UNCHANGED <<strategy, field, expect, written, extracts, nestVars, txnVars,
                   refVars, typeVars, guardVars>>

\* The extracted callable, which captured nothing, leaves the caller's scope.
DeferDropInner(j) ==
    /\ ~aborted
    /\ Captured(j) = {}
    /\ DropInner(j)
    /\ UNCHANGED <<nestVars, txnVars, refVars, typeVars, guardVars>>

\* The extracted callable leaves the caller's scope uncalled (`_b` at the end
\* of the block): its default drop glue drops the guard i it captured.
NestedDropInner(j, i) ==
    /\ ~aborted
    /\ inner[j] # NoValue /\ i \in Captured(j)
    /\ inner' = [inner EXCEPT ![j] = NoValue]
    /\ \E oi \in DropManually(DropImpl(strategy[i])) :
        /\ hooks' = GlueHooks(hooks, i)
        /\ hookFate' = GlueFate(hookFate, i, oi)
        /\ effect' = GlueEffect(effect, i, oi)
        /\ valueDrops' =
               GlueValueDrops([valueDrops EXCEPT ![j] = @ + 1], i, oi)
        /\ calls' = GlueCalls(calls, i, oi)
        /\ hookUnwound' = GlueHookUnwound(hookUnwound, i, oi)
        /\ unwound' = GlueUnwound(unwound, i, oi)
    /\ binding' = GlueBinding(binding, i)
    /\ read' = NoRead
    /\ UNCHANGED <<strategy, field, expect, written, extracts, nestVars, txnVars,
                   refVars, typeVars, guardVars>>

\* mem::forget of a guard: its callable, and what it captured, are leaked.
DeferForget(j) ==
    /\ ~aborted
    /\ Forget(j)
    /\ UNCHANGED <<nestVars, txnVars, refVars, typeVars, guardVars>>

DeferNext ==
    \/ \E i \in Inst, v \in Values : DeferNew(i, v)
    \/ \E j \in Inst, i \in Inst, v \in Values : DeferNewCapturing(j, i, v)
    \/ \E j \in Inst : DeferDrop(j)
    \/ \E j \in Inst, i \in Inst : NestedDrop(j, i)
    \/ \E j \in Inst : DeferIntoInner(j)
    \/ \E j \in Inst : CallInner(j)
    \/ \E j \in Inst, i \in Inst : NestedCallInner(j, i)
    \/ \E j \in Inst : DeferDropInner(j)
    \/ \E j \in Inst, i \in Inst : NestedDropInner(j, i)
    \/ \E j \in Inst : DeferForget(j)

DeferSpec == Init /\ [][DeferNext]_vars

\* The test's counter: how often incr ran, in any guard's callable.
RECURSIVE SumCalls(_)
SumCalls(n) == IF n = 0 THEN 0 ELSE Len(calls[n]) + SumCalls(n - 1)
Counter == SumCalls(MaxInst)

----------------------------------------------------------------------------
(* tests/defer.rs: ScopeGuard<State, F>, a guard around a state and a      *)
(* callback F : FnOnce(State). The held value is the guard's state.        *)

\* ScopeGuardFields { state, on_drop }.arm()
GuardArm(i, v) ==
    /\ New(i, v, "ScopeGuard")
    /\ armed' = [armed EXCEPT ![i] = v]
    /\ UNCHANGED <<nestVars, txnVars, refVars, typeVars>>

\* Deref for ScopeGuard: &self.0.state
GuardDeref(i) ==
    /\ Deref(i)
    /\ UNCHANGED <<nestVars, txnVars, refVars, typeVars, guardVars>>

\* DerefMut for ScopeGuard: &mut self.0.state, then a write through it.
GuardDerefMut(i, v) ==
    /\ DerefMut(i, v)
    /\ UNCHANGED <<nestVars, txnVars, refVars, typeVars, guardVars>>

\* The guard leaves scope, drop(scope_guard).
GuardDrop(i) ==
    /\ Drop(i)
    /\ UNCHANGED <<nestVars, txnVars, refVars, typeVars, guardVars>>

\* scope_guard.defuse()
GuardDefuse(i) ==
    /\ IntoInner(i)
    /\ UNCHANGED <<nestVars, txnVars, refVars, typeVars, guardVars>>

\* The returned fields (state, _dropper) leave the caller's scope.
GuardDropFields(i) ==
    /\ DropInner(i)
    /\ UNCHANGED <<nestVars, txnVars, refVars, typeVars, guardVars>>

GuardNext ==
    \/ \E i \in Inst, v \in Values : GuardArm(i, v)
    \/ \E i \in Inst : GuardDeref(i)
    \/ \E i \in Inst, v \in Values : GuardDerefMut(i, v)
    \/ \E i \in Inst : GuardDrop(i)
    \/ \E i \in Inst : GuardDefuse(i)
    \/ \E i \in Inst : GuardDropFields(i)

GuardSpec == Init /\ [][GuardNext]_vars

----------------------------------------------------------------------------
(* tests/transaction.rs: Transaction { raw_txn: SafeManuallyDrop<          *)
(* RawTransaction, Self>, _some_other_owned_resource: Weak<()> }. The      *)
(* instance's `effect` is the db_state its RawTransaction refers to.       *)

\* Arc::downgrade(ref_count): a live Weak.
ArcDowngrade == "held"

\* Variant: the Weak is never dropped.
WeakLeaked(w) == w

\* The drop glue of the Weak<()> field.
WeakDrop(w) == "released"

\* The drop glue of what is left of a Transaction once raw_txn is finalized
\* or moved out: the _some_other_owned_resource field.
RestGlue(w, i) == [w EXCEPT ![i] = WeakDrop(@)]
RestGlueCount(d, w, i) ==
    [d EXCEPT ![i] = @ + (IF WeakDrop(w[i]) # w[i] THEN 1 ELSE 0)]

\* The Arc's weak counter after Arc::downgrade, and after a Weak's drop.
Downgraded(n) == n + 1
WeakDropped(n) == n - 1

\* The same drop glue, as the Arc's weak counter sees it.
RestGlueWeak(c, w, i) ==
    [c EXCEPT ![i] = IF WeakDrop(w[i]) # w[i] THEN WeakDropped(@) ELSE @]

\* Arc::weak_count(ref_count), for the Arc that instance i downgraded.
WeakCount(i) == weak[i]

\* RawTransaction::commit(self)
RawCommit(raw_txn) == "Committed"

\* Variant: the container's terminal operation runs the drop glue of what
\* lies beside its field.
BesideFieldDropped(w, i) == RestGlue(w, i)

\* Drop::drop(&mut self) and into_inner_defusing_impl_Drop(self) reach the
\* container only: what lies beside it in the structure is as it was.
BesideField(w, i) == w

\* The rest of the drop glue of a Transaction, run once its container's
\* terminal operation has returned with w beside it: the sibling as that
\* operation left it is recorded, then the _some_other_owned_resource field
\* is dropped.
TxnDropRest(i, w, how) ==
    /\ beside' = [beside EXCEPT ![i] = w[i]]
    /\ sibling' = RestGlue(w, i)
    /\ siblingDrops' = RestGlueCount(siblingDrops, w, i)
    /\ weak' = RestGlueWeak(weak, w, i)
    /\ closedBy' = [closedBy EXCEPT ![i] = Append(@, how)]

\* Transaction::new(db_state, ref_count)
TxnNew(i, v) ==
    /\ effect[i] = "None"
    /\ New(i, v, "Transaction")
    /\ sibling' = [sibling EXCEPT ![i] = ArcDowngrade]
    /\ weak' = [weak EXCEPT ![i] = Downgraded(@)]
    /\ UNCHANGED <<siblingDrops, unleaks, beside, handed, closedBy, nestVars,
                   refVars, typeVars, guardVars>>

\* `_txn` leaves its scope: the struct's drop glue drops its first field,
\* raw_txn, whose Drop::drop runs the hook, and then the Weak.
TxnScopeExit(i) ==
    /\ Drop(i)
    /\ TxnDropRest(i, BesideField(sibling, i), "scope")
    /\ UNCHANGED <<unleaks, handed, nestVars, refVars, typeVars, guardVars>>

\* txn.roll_back(): the empty body ends, and self is dropped whole, raw_txn
\* first, then the Weak.
TxnRollBack(i) ==
    /\ Drop(i)
    /\ TxnDropRest(i, BesideField(sibling, i), "roll_back")
    /\ UNCHANGED <<unleaks, handed, nestVars, refVars, typeVars, guardVars>>

\* txn.commit(): raw_txn is extracted with the hook defused and committed;
\* at the end of the body what is left of self, the Weak, is dropped.
TxnCommit(i) ==
    /\ Owned(i)
    /\ LET raw_txn == MDIntoInner(Transmute(field[i]))
       IN /\ handed' = [handed EXCEPT ![i] = raw_txn]
          /\ effect' = [effect EXCEPT ![i] = RawCommit(raw_txn)]
    /\ binding' = [binding EXCEPT ![i] = MDNewSelf]
    /\ extracts' = [extracts EXCEPT ![i] = @ + 1]
    /\ read' = NoRead
    /\ TxnDropRest(i, BesideField(sibling, i), "commit")
    /\ UNCHANGED <<strategy, field, expect, written, hooks, hookFate,
                   valueDrops, inner, hookUnwound, unwound, calls, unleaks,
                   nestVars, refVars, typeVars, guardVars>>

\* ::core::mem::forget(txn): no drop glue runs, for either field.
TxnForget(i) ==
    /\ Forget(i)
    /\ closedBy' = [closedBy EXCEPT ![i] = Append(@, "forget")]
    /\ UNCHANGED <<sibling, siblingDrops, weak, unleaks, beside, handed,
                   nestVars, refVars, typeVars, guardVars>>

\* unsafe { <*const _>::read(&Arc::downgrade(ref_count)); } after the
\* forget: a temporary Weak is made, a bitwise copy of it is read and
\* dropped, and the temporary is dropped as well. The forgotten Transaction
\* and the Weak it holds are not touched.
TxnUnleak(i) ==
    /\ Suppressed(i)
    /\ unleaks[i] = 0
    /\ weak' = [weak EXCEPT ![i] = WeakDropped(WeakDropped(Downgraded(@)))]
    /\ unleaks' = [unleaks EXCEPT ![i] = @ + 1]
    /\ UNCHANGED <<coreVars, sibling, siblingDrops, beside, handed, closedBy,
                   nestVars, refVars, typeVars, guardVars>>

\* Whether the caller let go of Transaction i in the given way.
Closed(i, how) == \E k \in 1 .. Len(closedBy[i]) : closedBy[i][k] = how

TxnNext ==
    \/ \E i \in Inst, v \in Values : TxnNew(i, v)
    \/ \E i \in Inst : TxnScopeExit(i)
    \/ \E i \in Inst : TxnRollBack(i)
    \/ \E i \in Inst : TxnCommit(i)
    \/ \E i \in Inst : TxnForget(i)
    \/ \E i \in Inst : TxnUnleak(i)

TxnSpec == Init /\ [][TxnNext]_vars

----------------------------------------------------------------------------
(* The Option-based design of the documentation: the owner holds an        *)
(* Option<FieldTy> and every access unwraps it. It runs here in lockstep   *)
(* with the container, operation by operation.                             *)

OptSome(v) == <<v>>
OptNone == <<>>

\* Option::unwrap(): the value, or a panic on None.
OptUnwrap(o) ==
    IF o = OptNone THEN [ok |-> FALSE, val |-> NoValue]
                   ELSE [ok |-> TRUE, val |-> o[1]]

\* Option::take(): the slot is left None.
OptTake(o) == OptNone

\* DeferGuard(Some(fields))
OptNew(i, v) ==
    /\ optSlot' = [optSlot EXCEPT ![i] = OptSome(v)]
    /\ optRead' = NoValue
    /\ UNCHANGED <<optHooks, optInner, optFailed>>

\* fn deref(&self): self.0.as_ref().unwrap()
OptDeref(i) ==
    /\ LET u == OptUnwrap(optSlot[i])
       IN /\ optRead' = u.val
          /\ optFailed' = (optFailed \/ ~u.ok)
    /\ UNCHANGED <<optSlot, optHooks, optInner>>

\* self.0.as_mut().unwrap(), then a write of v through the reference.
OptDerefMut(i, v) ==
    /\ LET u == OptUnwrap(optSlot[i])
       IN /\ optSlot' = [optSlot EXCEPT ![i] = IF u.ok THEN OptSome(v) ELSE @]
          /\ optRead' = NoValue
          /\ optFailed' = (optFailed \/ ~u.ok)
    /\ UNCHANGED <<optHooks, optInner>>

\* fn drop(&mut self): self.0.take().unwrap(), then the hook on the value.
OptDrop(i) ==
    /\ LET u == OptUnwrap(optSlot[i])
       IN /\ optHooks' = [optHooks EXCEPT ![i] = IF u.ok THEN Append(@, u.val) ELSE @]
          /\ optFailed' = (optFailed \/ ~u.ok)
    /\ optSlot' = [optSlot EXCEPT ![i] = OptTake(@)]
    /\ optRead' = NoValue
    /\ UNCHANGED optInner

\* Extraction: the value is taken and unwrapped, and the emptied owner is
\* let go of without its hook.
OptIntoInner(i) ==
    /\ LET u == OptUnwrap(optSlot[i])
       IN /\ optInner' = [optInner EXCEPT ![i] = u.val]
          /\ optFailed' = (optFailed \/ ~u.ok)
    /\ optSlot' = [optSlot EXCEPT ![i] = OptTake(@)]
    /\ optRead' = NoValue
    /\ UNCHANGED optHooks

\* The extracted value leaves the caller's scope.
OptDropInner(i) ==
    /\ optInner' = [optInner EXCEPT ![i] = NoValue]
    /\ optRead' = NoValue
    /\ UNCHANGED <<optSlot, optHooks, optFailed>>

\* mem::forget of the owner.
OptForget(i) ==
    /\ optRead' = NoValue
    /\ UNCHANGED <<optSlot, optHooks, optInner, optFailed>>

\* The two designs run beside each other, in no structure of tests/.
Beside == UNCHANGED <<nestVars, txnVars, typeVars, guardVars>>

RefNext ==
    \/ \E i \in Inst, v \in Values, S \in Strategies :
          New(i, v, S) /\ OptNew(i, v) /\ Beside
    \/ \E i \in Inst :
          Deref(i) /\ OptDeref(i) /\ Beside
    \/ \E i \in Inst, v \in Values :
          DerefMut(i, v) /\ OptDerefMut(i, v) /\ Beside
    \/ \E i \in Inst :
          Drop(i) /\ OptDrop(i) /\ Beside
    \/ \E i \in Inst :
          IntoInner(i) /\ OptIntoInner(i) /\ Beside
    \/ \E i \in Inst :
          DropInner(i) /\ OptDropInner(i) /\ Beside
    \/ \E i \in Inst :
          Forget(i) /\ OptForget(i) /\ Beside

RefSpec == Init /\ [][RefNext]_vars

\* The arguments of the container's hook calls for instance i, in order.
HookArgs(i) == [k \in 1 .. Len(hooks[i]) |-> hooks[i][k].arg]

----------------------------------------------------------------------------
(* The bound ContainingType : DropManually<FieldTy>, which the compiler    *)
(* checks for every instantiation of SafeManuallyDrop, before any of its   *)
(* code can run.                                                           *)

\* The default of the second type parameter.
MissingSecondTypeParam == "MissingSecondTypeParam"

\* The types a caller may write as ContainingType: the impls of the
\* documentation, the default, and a type with no impl of DropManually.
ContainingTypes == Strategies \cup {MissingSecondTypeParam, "RawTransaction"}

\* The impls of the trait diagnostics::ExplicitlyProvided: there is none.
ExplicitlyProvided == {}

\* Variant: the placeholder's impl has no where clause.
NoWhereClause(S) == TRUE

\* for<'never_true> MissingSecondTypeParam : ExplicitlyProvided
NeverTrue(S) == S \in ExplicitlyProvided

\* Whether there is an applicable impl DropManually<FieldTy> for S.
ImplementsDropManually(S) ==
    \/ S \in Strategies
    \/ S = MissingSecondTypeParam /\ NeverTrue(S)

\* SafeManuallyDrop::<FieldTy, S>::new(value) in a program that compiles:
\* the compiler has refused none of the program's instantiations.
TypedNew(i, v, S) ==
    /\ rejected = {}
    /\ ImplementsDropManually(S)
    /\ New(i, v, S)
    /\ Alone

\* The same expression with a type the compiler refuses: it is checked
\* before anything of the program runs, and the diagnostic is all that
\* happens.
TypeError(S) ==
    /\ \A i \in Inst : binding[i] = "unborn"
    /\ ~ImplementsDropManually(S)
    /\ S \notin rejected
    /\ rejected' = rejected \cup {S}
    /\ UNCHANGED <<coreVars, nestVars, txnVars, refVars, guardVars>>

TypedNext ==
    \/ \E i \in Inst, v \in Values, S \in ContainingTypes : TypedNew(i, v, S)
    \/ \E S \in ContainingTypes : TypeError(S)
    \/ \E i \in Inst : Deref(i) /\ Alone
    \/ \E i \in Inst, v \in Values : DerefMut(i, v) /\ Alone
    \/ \E i \in Inst : Drop(i) /\ Alone
    \/ \E i \in Inst : IntoInner(i) /\ Alone
    \/ \E i \in Inst : DropInner(i) /\ Alone
    \/ \E i \in Inst : Forget(i) /\ Alone

TypedSpec == Init /\ [][TypedNext]_vars

----------------------------------------------------------------------------
(* Claims.                                                                 *)

HookCount(i) == Len(hooks[i])

\* C1: a container constructed from v and then dropped, with no write through
\* it in between, has had drop_manually invoked exactly once for it, with an
\* argument equal to v.
C1_FinalizeOnceWithValue ==
    \A i \in Inst :
        (binding[i] = "dropped" /\ ~written[i]) =>
            /\ HookCount(i) = 1
            /\ hooks[i][1].arg = expect[i]

C1_Witness ==
    \E i \in Inst :
        /\ binding[i] = "dropped" /\ ~written[i]
        /\ expect[i] = MaxVal
        /\ hooks[i] = <<HookCall(strategy[i], MaxVal)>>

\* C2: into_inner_defusing_impl_Drop(new(v)) returns a value equal to v, and
\* drop_manually is never invoked for that instance afterwards.
C2_ExtractReturnsValue ==
    \A i \in Inst :
        (extracts[i] > 0 /\ ~written[i]) =>
            /\ HookCount(i) = 0
            /\ valueDrops[i] = 0 => inner[i] = expect[i]

C2_Witness ==
    \E i \in Inst :
        /\ extracts[i] = 1 /\ ~written[i]
        /\ expect[i] = MaxVal /\ inner[i] = MaxVal
        /\ HookCount(i) = 0

\* C3: hook invocations plus defusing extractions of an instance are at most 1
\* in every state, exactly 1 once it is terminated, and 0 for an instance given
\* to mem::forget.
C3_ExactlyOnce ==
    \A i \in Inst :
        LET n == HookCount(i) + extracts[i]
        IN /\ n <= 1
           /\ Terminated(i) => n = 1
           /\ Suppressed(i) => n = 0

C3_Witness ==
    \E i, j \in Inst :
        /\ binding[i] = "dropped" /\ HookCount(i) = 1 /\ extracts[i] = 0
        /\ binding[j] = "defused" /\ HookCount(j) = 0 /\ extracts[j] = 1

\* C4: dropping a container runs the held value's default drop glue exactly
\* once when the hook let the value fall out of scope, and never when the hook
\* forgot it or moved it on: the container's own glue does not drop the value.
C4_HookReplacesDefaultDrop ==
    \A i \in Inst :
        binding[i] = "dropped" =>
            valueDrops[i] = (IF hookFate[i] = "drop" THEN 1 ELSE 0)

C4_Witness ==
    \E i, j \in Inst :
        /\ binding[i] = "dropped" /\ hookFate[i] = "drop" /\ valueDrops[i] = 1
        /\ binding[j] = "dropped" /\ hookFate[j] \in {"forget", "move"}
        /\ valueDrops[j] = 0

\* C5: after a defusing extraction the hook has run zero times; the value's
\* default drop glue has not run while the caller holds the value, and has run
\* exactly once after the caller let it go.
C5_ExtractedValueDefaultDrop ==
    \A i \in Inst :
        extracts[i] > 0 =>
            /\ hooks[i] = <<>>
            /\ valueDrops[i] = (IF inner[i] = NoValue THEN 1 ELSE 0)

C5_Witness ==
    \E i \in Inst :
        /\ extracts[i] = 1 /\ inner[i] = NoValue
        /\ valueDrops[i] = 1 /\ hooks[i] = <<>>

\* C6: once an instance is terminated (dropped or defused) no step reads it,
\* writes it, finalizes it or extracts from it again.
C6_TerminatedAbsorbing ==
    [][\A i \in Inst :
        Terminated(i) =>
            /\ binding'[i] = binding[i]
            /\ field'[i] = field[i]
            /\ expect'[i] = expect[i]
            /\ hooks'[i] = hooks[i]
            /\ extracts'[i] = extracts[i]
            /\ read'.inst # i]_vars

C6_Witness ==
    \E i, j \in Inst :
        /\ binding[i] = "dropped" /\ HookCount(i) = 1
        /\ binding[j] = "defused" /\ inner[j] = NoValue

\* C7: under fair scope exit every alive instance is eventually terminated or
\* was given to mem::forget; an instance given to mem::forget stays so, and
\* its hook never runs.
C7_EventuallyTerminated ==
    /\ \A i \in Inst : Alive(i) ~> (Terminated(i) \/ Suppressed(i))
    /\ [][\A i \in Inst :
            Suppressed(i) =>
                /\ hooks[i] = <<>>
                /\ binding'[i] = "forgotten"
                /\ hooks'[i] = <<>>]_vars

C7_Witness ==
    \E i, j \in Inst :
        /\ Terminated(i)
        /\ Suppressed(j) /\ hooks[j] = <<>> /\ valueDrops[j] = 0

\* C8: while a container is alive its slot holds the value of construction or
\* of the latest write, a read returns that value, and a write step changes
\* nothing but the written container's held value.
C8_TransparentProxy ==
    /\ [](\A i \in Inst : Alive(i) => field[i] = <<expect[i]>>)
    /\ [](read.inst # 0 => (Alive(read.inst) /\ read.val = expect[read.inst]))
    /\ [][\A i \in Inst :
            (Alive(i) /\ (expect'[i] # expect[i] \/ written'[i] # written[i])) =>
                /\ \A j \in Inst \ {i} :
                       field'[j] = field[j] /\ expect'[j] = expect[j]
                /\ UNCHANGED <<binding, strategy, hooks, hookFate, effect,
                               valueDrops, extracts, inner>>]_vars

C8_Witness ==
    \E i \in Inst :
        /\ written[i] /\ expect[i] = MaxVal
        /\ read = Read(i, MaxVal)

\* C9: an alive instance has had no hook invocation; a construction, a read or
\* a write step invokes no hook and leaves the instance alive.
C9_AliveHookFree ==
    /\ [](\A i \in Inst : Alive(i) => (hooks[i] = <<>> /\ hookFate[i] = "none"))
    /\ [][\A i \in Inst :
            (\/ binding[i] = "unborn" /\ binding'[i] # "unborn"
             \/ Alive(i) /\ read' # read /\ read'.inst = i
             \/ Alive(i) /\ (expect'[i] # expect[i] \/ written'[i] # written[i]))
            => (binding'[i] = "owned" /\ hooks' = hooks)]_vars

C9_Witness ==
    \E i \in Inst :
        /\ Alive(i) /\ written[i] /\ read.inst = i
        /\ hooks[i] = <<>> /\ hookFate[i] = "none"

\* C10: the hook run at a container's drop is the impl of its own
\* ContainingType: a CommitOnDropStrategy container commits and never rolls
\* back, a RollBackOnDropStrategy container rolls back and never commits.
C10_StrategyDispatch ==
    \A i \in Inst :
        /\ \A k \in 1 .. HookCount(i) : hooks[i][k].impl = strategy[i]
        /\ strategy[i] = "CommitOnDropStrategy" => effect[i] # "RolledBack"
        /\ strategy[i] = "RollBackOnDropStrategy" => effect[i] # "Committed"
        /\ binding[i] = "dropped" =>
               \E o \in DropManually(strategy[i]) :
                   o.fate = hookFate[i] /\ o.effect = effect[i]

C10_Witness ==
    \E i, j \in Inst :
        /\ binding[i] = "dropped" /\ binding[j] = "dropped"
        /\ expect[i] = expect[j]
        /\ strategy[i] = "CommitOnDropStrategy" /\ effect[i] = "Committed"
        /\ strategy[j] = "RollBackOnDropStrategy" /\ effect[j] = "RolledBack"


\* C12: a panic of the finalization hook leaves Drop::drop exactly as the
\* hook raised it (the drop unwinds iff the hook unwound), and nothing but a
\* hook's panic ever makes an operation of the container unwind.
C12_HookPanicPropagates ==
    \A i \in Inst :
        /\ unwound[i] = hookUnwound[i]
        /\ unwound[i] => /\ binding[i] = "dropped"
                         /\ HookCount(i) = 1

C12_Witness ==
    \E i \in Inst :
        /\ binding[i] = "dropped"
        /\ hookUnwound[i]
        /\ unwound[i]

\* C13: the callable of a Defer guard runs exactly once: when the guard
\* leaves scope, its hook calls it once; when the guard is defused and the
\* caller invokes the extracted callable, that is the only call.
C13_DeferRunsOnce ==
    \A i \in Inst :
        strategy[i] = "Defer" =>
            /\ Len(calls[i]) <= 1
            /\ binding[i] = "dropped" =>
                   /\ Len(calls[i]) = 1
                   /\ HookCount(i) = 1
            /\ (binding[i] = "defused" /\ inner[i] = NoValue
                    /\ valueDrops[i] = 0) =>
                   /\ Len(calls[i]) = 1
                   /\ HookCount(i) = 0

C13_Witness ==
    \E i \in Inst :
        /\ strategy[i] = "Defer"
        /\ binding[i] = "defused"
        /\ inner[i] = NoValue
        /\ calls[i] = <<NoValue>>

\* C14: when guard b, whose callable captured guard a, is defused, b's hook
\* never runs and a stays alive inside the extracted callable; when that
\* callable is dropped uncalled, a's hook runs exactly once, so the counter
\* that both callables increment ends at 1.
C14_NestedDefuse ==
    \A a \in Inst, b \in Inst :
        (holder[a] = b /\ extracts[b] > 0) =>
            /\ HookCount(b) = 0
            /\ binding[b] = "defused"
            /\ inner[b] # NoValue =>
                   /\ binding[a] = "moved"
                   /\ HookCount(a) = 0
                   /\ calls[a] = <<>>
            /\ (inner[b] = NoValue /\ valueDrops[b] = 1) =>
                   /\ binding[a] = "dropped"
                   /\ HookCount(a) = 1
                   /\ Len(calls[a]) = 1
                   /\ calls[b] = <<>>
                   /\ Len(calls[a]) + Len(calls[b]) = 1

C14_Witness ==
    \E a \in Inst, b \in Inst :
        /\ holder[a] = b
        /\ binding[b] = "defused"
        /\ inner[b] = NoValue
        /\ valueDrops[b] = 1
        /\ binding[a] = "dropped"
        /\ Counter = 1


\* C15: when a ScopeGuard leaves scope its callback is invoked exactly once,
\* with the guard's state as argument; when the guard is defused instead,
\* the callback is never invoked and the returned fields hold the state as
\* the guard held it.
C15_ScopeGuard ==
    \A i \in Inst :
        strategy[i] = "ScopeGuard" =>
            /\ Len(calls[i]) <= 1
            /\ binding[i] = "dropped" =>
                   /\ HookCount(i) = 1
                   /\ calls[i] = <<expect[i]>>
            /\ extracts[i] > 0 =>
                   /\ binding[i] = "defused"
                   /\ HookCount(i) = 0
                   /\ calls[i] = <<>>
                   /\ inner[i] # NoValue => inner[i] = expect[i]

C15_Witness ==
    \E i \in Inst, j \in Inst :
        /\ strategy[i] = "ScopeGuard" /\ strategy[j] = "ScopeGuard"
        /\ binding[i] = "dropped" /\ written[i] /\ calls[i] = <<expect[i]>>
        /\ binding[j] = "defused" /\ inner[j] = expect[j] /\ calls[j] = <<>>


\* C11: a step that terminates one container (finalization or defusing
\* extraction) hands that container's own held value to its hook, or to the
\* caller of the extraction, and changes nothing else: every other instance
\* keeps its lifecycle state, held value, hook record, effect and sibling
\* field, and the sibling field beside the terminated container itself is,
\* when the container's operation returns, what it was before it.
C11_Locality ==
    [][\A i \in Inst :
          (Owned(i) /\ Terminated(i)') =>
              /\ \A j \in Inst \ {i} :
                    /\ binding'[j] = binding[j]
                    /\ strategy'[j] = strategy[j]
                    /\ field'[j] = field[j]
                    /\ expect'[j] = expect[j]
                    /\ hooks'[j] = hooks[j]
                    /\ effect'[j] = effect[j]
                    /\ valueDrops'[j] = valueDrops[j]
                    /\ extracts'[j] = extracts[j]
                    /\ inner'[j] = inner[j]
                    /\ sibling'[j] = sibling[j]
                    /\ siblingDrops'[j] = siblingDrops[j]
                    /\ weak'[j] = weak[j]
              /\ field'[i] = field[i]
              /\ HookCount(i)' = HookCount(i) + 1 =>
                     hooks'[i][HookCount(i)'].arg = expect[i]
              /\ extracts'[i] = extracts[i] + 1 => handed'[i] = expect[i]
              /\ HookCount(i)' + extracts'[i] = HookCount(i) + extracts[i] + 1
              /\ beside'[i] = sibling[i]]_vars

C11_Witness ==
    \E i \in Inst, j \in Inst :
        /\ i # j
        /\ Terminated(i) /\ Closed(i, "commit")
        /\ handed[i] = expect[i] /\ beside[i] = "held"
        /\ sibling[i] = "released"
        /\ Owned(j) /\ sibling[j] = "held" /\ expect[j] # expect[i]

\* C16: a Transaction is pending until the caller lets go of it; one that
\* leaves scope, or on which roll_back() is called, ends RolledBack; one on
\* which commit() is called ends Committed, and its hook, the only thing
\* that rolls back, never runs before or after.
C16_RollbackByDefault ==
    \A i \in Inst :
        strategy[i] = "Transaction" =>
            /\ Owned(i) => effect[i] = "None"
            /\ (Closed(i, "scope") \/ Closed(i, "roll_back")) =>
                   /\ effect[i] = "RolledBack"
                   /\ HookCount(i) = 1
            /\ (Closed(i, "commit") \/ extracts[i] > 0) =>
                   /\ effect[i] = "Committed"
                   /\ HookCount(i) = 0

C16_Witness ==
    \E i \in Inst, j \in Inst :
        /\ Closed(i, "roll_back") /\ effect[i] = "RolledBack"
        /\ Closed(j, "commit") /\ effect[j] = "Committed"

\* C17: a Transaction passed to mem::forget is leaked: neither its hook nor
\* any disposal runs, its status stays pending, its Weak is never dropped,
\* and the weak count taken at construction stays 1 for as long as the test
\* does not lower it by hand with its unsafe read of a second Weak.
C17_ForgetLeaks ==
    \A i \in Inst :
        Closed(i, "forget") =>
            /\ Suppressed(i)
            /\ HookCount(i) = 0
            /\ valueDrops[i] = 0
            /\ effect[i] = "None"
            /\ sibling[i] = "held"
            /\ siblingDrops[i] = 0
            /\ unleaks[i] = 0 => WeakCount(i) = 1
            /\ unleaks[i] > 0 => WeakCount(i) = 0

C17_Witness ==
    \E i \in Inst, j \in Inst :
        /\ Closed(i, "forget") /\ Suppressed(i)
        /\ unleaks[i] = 0 /\ WeakCount(i) = 1
        /\ Closed(j, "forget") /\ Suppressed(j)
        /\ unleaks[j] = 1 /\ WeakCount(j) = 0 /\ sibling[j] = "held"

\* C18: on every path of a Transaction that is not suppressed (scope exit,
\* roll_back(), commit() through the defusing extraction) the sibling Weak
\* is released exactly once: the weak count is 1 during the transaction and
\* 0 after it.
C18_SiblingReleasedOnce ==
    \A i \in Inst :
        strategy[i] = "Transaction" =>
            /\ siblingDrops[i] <= 1
            /\ Owned(i) => (WeakCount(i) = 1 /\ siblingDrops[i] = 0)
            /\ (Closed(i, "scope") \/ Closed(i, "roll_back")
                    \/ Closed(i, "commit")) =>
                   /\ Terminated(i)
                   /\ siblingDrops[i] = 1
                   /\ WeakCount(i) = 0

C18_Witness ==
    \E i \in Inst :
        /\ Closed(i, "commit")
        /\ binding[i] = "defused"
        /\ siblingDrops[i] = 1
        /\ WeakCount(i) = 0


\* C19: over every sequence of construct, read, write, drop and extract, the
\* container and the Option-based design make the same hook calls with the
\* same arguments, give the same read and the same extracted values, and the
\* Option is never None when it is unwrapped.
C19_OptionEquivalent ==
    /\ ~optFailed
    /\ optRead = read.val
    /\ \A i \in Inst :
          /\ optHooks[i] = HookArgs(i)
          /\ optInner[i] = inner[i]
          /\ Owned(i) => optSlot[i] = OptSome(ReadFieldTy(field[i]))

C19_Witness ==
    \E i \in Inst, j \in Inst :
        /\ written[i] /\ binding[i] = "dropped"
        /\ optHooks[i] = <<expect[i]>> /\ expect[i] # 0
        /\ binding[j] = "defused" /\ optInner[j] = expect[j]
        /\ optSlot[j] = OptNone


\* C20: a container exists only for a ContainingType that implements the
\* hook: the default placeholder MissingSecondTypeParam and a type with no
\* impl are refused by the compiler, so no container is ever instantiated
\* with them, a program that names them runs nothing, and the placeholder's
\* unreachable!() body never runs.
C20_UnimplementedRejected ==
    \A i \in Inst :
        /\ strategy[i] \in Strategies \cup {NoStrategy}
        /\ strategy[i] \notin rejected
        /\ rejected # {} => binding[i] = "unborn"
        /\ \A k \in 1 .. Len(hooks[i]) :
              /\ hooks[i][k].impl # MissingSecondTypeParam
              /\ hooks[i][k].impl \in Strategies
        /\ ~unwound[i]

C20_Witness ==
    /\ rejected = {MissingSecondTypeParam, "RawTransaction"}
    /\ \A i \in Inst : binding[i] = "unborn" /\ hooks[i] = <<>>


\* C22: a guard whose state was written through the container hands its
\* hook, when it leaves scope, and its caller, when it is defused, the value
\* of the last write, whatever the state it was armed with.
C22_LastWrittenValue ==
    \A i \in Inst :
        (armed[i] # NoValue /\ written[i]) =>
            /\ binding[i] = "dropped" =>
                   /\ hooks[i] = <<HookCall(strategy[i], expect[i])>>
                   /\ expect[i] # armed[i] => hooks[i][1].arg # armed[i]
            /\ (extracts[i] > 0 /\ inner[i] # NoValue) =>
                   /\ inner[i] = expect[i]
                   /\ expect[i] # armed[i] => inner[i] # armed[i]

C22_Witness ==
    \E i \in Inst, j \in Inst :
        /\ written[i] /\ binding[i] = "dropped"
        /\ armed[i] # expect[i] /\ hooks[i][1].arg = expect[i]
        /\ written[j] /\ binding[j] = "defused"
        /\ armed[j] # expect[j] /\ inner[j] = expect[j]


\* C23: when the hook of a guard that left scope panics, the value had
\* already been taken out of the container and handed to it: the instance is
\* terminated all the same, its hook has run once and is never run again,
\* and the container disposes of the value neither then nor later.
C23_PanickedHookStillTerminates ==
    \A i \in Inst :
        hookUnwound[i] =>
            /\ Terminated(i)
            /\ extracts[i] = 0
            /\ hooks[i] = <<HookCall(strategy[i], expect[i])>>
            /\ Len(calls[i]) = 1
            /\ valueDrops[i] = 0
            /\ inner[i] = NoValue

C23_Witness ==
    \E i \in Inst, j \in Inst :
        /\ hookUnwound[i] /\ binding[i] = "dropped" /\ HookCount(i) = 1
        /\ holder[j] = i /\ binding[j] = "dropped" /\ ~hookUnwound[j]

====
